---------------------------- MODULE Spec2Model ----------------------------
(***************************************************************************)
(* A model of the swga primer tools:                                       *)
(*   - PrimerSets/filter_primers.py  (filter_primers, main)                *)
(*   - bg_binding_counts.py          (bg_binding_freq)                     *)
(*   - swga/primers.py               (count_kmers, _parse_kmer_binary,     *)
(*                                    read_primer_list, update_Tms,        *)
(*                                    update_locations, activate,          *)
(*                                    max_consecutive_binding,             *)
(*                                    update_in_chunks)                    *)
(*   - swga/commands/activate.py     (main)                                *)
(* Each component has a specification of its own (SpecFilter, SpecBg, ...) *)
(* over the shared variables; the variables of the other components stay   *)
(* at their idle values.                                                   *)
(*                                                                         *)
(* Python values: a string is a sequence of one-character strings; an      *)
(* optional value is None == << >> or Some(v) == <<v>>.                    *)
(***************************************************************************)
EXTENDS Integers, Sequences, FiniteSets, TLC

VARIABLES
    \* PrimerSets/filter_primers.py: filter_primers(args)
    primers,            \* the records read from args.input
    max_bg_binding,     \* args.max_bg_binding
    num_primers,        \* args.num_primers
    fp_out,             \* the list filter_primers returns
    fp_pc,              \* "idle" | "start" | "done"
    \* bg_binding_counts.py: bg_binding_freq(primer, bg)
    primer, bg, start, count,
    bg_pc,              \* "idle" | "loop" | "done"
    \* swga/primers.py: max_consecutive_binding(mer1, mer2)
    mer1, mer2,         \* the arguments, as passed
    max_bind,           \* the value returned
    mcb_pc,             \* "idle" | "start" | "done" | "KeyError"
    \* swga/primers.py: count_kmers(k, genome_fp, cwd, threshold), called
    \* repeatedly with one genome, k and cwd
    outfile,            \* the cache file: None, or Some(its bytes)
    dsk_runs,           \* how many times the external tool was run
    calls,              \* one record per finished call, oldest first
    \* the primers table (swga/primers.py: Primer), a set of rows
    catalog,
    \* swga/primers.py: update_in_chunks(itr, chunksize), applied twice
    itr,                \* the list of records
    chunksize,
    application,        \* which application of update_in_chunks is running: 1, 2
    chunk_i,            \* the index of the chunk upsert_chunk is working on
    before,             \* the catalog when upsert_chunk was entered
    catalog0,           \* the catalog before the first application
    up_pc,              \* "idle" | "delete" | "insert" | "done" | "raised"
    \* swga/commands/activate.py: main, and the calls it makes
    cmd_pc,             \* "off" | "idle" | "update_Tms" | "update_locations" | "activate"
    requested,          \* seqs, the sequences read_primer_list parsed from the lines
    primer_list,        \* the rows read_primer_list returned
    messages,           \* the sequences it reported as not in the database
    fg_genome_fp,       \* cmd.fg_genome_fp
    \* PrimerSets/filter_primers.py: main
    cfg_section,        \* None: no parameters file; else Some(sections), the
                        \* [filter_primers] section (None, or Some(its options))
    argv,               \* the flags given: option name -> the text after the flag
    defaults,           \* the dict handed to parser.set_defaults
    args,               \* the namespace parse_args returns: attribute -> value
    cli_out,            \* the rows written
    cli_pc              \* "off" | "config" | "parse_args" | "notice" | "filter" |
                        \* "done" | "NoSectionError" | "AttributeError"

filterVars == <<primers, max_bg_binding, num_primers, fp_out, fp_pc>>
bgVars == <<primer, bg, start, count, bg_pc>>
mcbVars == <<mer1, mer2, max_bind, mcb_pc>>
kmerVars == <<outfile, dsk_runs, calls>>
upsertVars == <<itr, chunksize, application, chunk_i, before, catalog0, up_pc>>
cmdVars == <<cmd_pc, requested, primer_list, messages, fg_genome_fp>>
cliVars == <<cfg_section, argv, defaults, args, cli_out, cli_pc>>
vars == <<filterVars, bgVars, mcbVars, kmerVars, catalog, upsertVars, cmdVars, cliVars>>

\* What each component leaves alone: the variables of the others.
notFilterVars == <<cliVars, cmdVars, bgVars, mcbVars, kmerVars, catalog, upsertVars>>
notBgVars == <<cliVars, cmdVars, filterVars, mcbVars, kmerVars, catalog, upsertVars>>
notMcbVars == <<cliVars, cmdVars, filterVars, bgVars, kmerVars, catalog, upsertVars>>
notKmerVars == <<cliVars, cmdVars, filterVars, bgVars, mcbVars, catalog, upsertVars>>
notUpsertVars == <<cliVars, filterVars, bgVars, mcbVars, kmerVars, cmdVars>>
notCmdVars == <<cliVars, filterVars, bgVars, mcbVars, kmerVars, upsertVars>>
notCliVars == <<filterVars, bgVars, mcbVars, kmerVars, catalog, upsertVars, cmdVars>>

----------------------------------------------------------------------------
(* Python values *)

None == << >>
Some(v) == <<v>>
IsNone(x) == x = None
Val(x) == x[1]

Min(a, b) == IF a <= b THEN a ELSE b
Max(a, b) == IF a >= b THEN a ELSE b

\* All sequences over S of length 0..n.
SeqsUpTo(S, n) == UNION {[1..k -> S] : k \in 0..n}

\* The elements of a sequence.
Range(s) == {s[i] : i \in DOMAIN s}

\* Python's s[0:stop] for an integer stop: a negative stop counts from the end.
SliceTo(s, stop) ==
    LET n == Len(s)
        e == IF stop < 0 THEN Max(n + stop, 0) ELSE Min(stop, n)
    IN SubSeq(s, 1, e)

----------------------------------------------------------------------------
(* PrimerSets/filter_primers.py: filter_primers *)

MaxPrimers == 3

SeqNames == <<"A", "B", "C", "D", "E">>
BgFreqs == {1, 2, 10}
Ratios == {5, 10, 20}          \* the ratio in hundredths: 0.05, 0.10, 0.20
Ceilings == {1, 5}

\* The lists read_primer_file can return: the i-th record carries the i-th name.
PrimerListsOfLen(k) ==
    {[i \in 1..k |-> [seq |-> SeqNames[i], bg_freq |-> f[i][1], ratio |-> f[i][2]]] :
        f \in [1..k -> BgFreqs \X Ratios]}

PrimerLists == UNION {PrimerListsOfLen(k) : k \in 0..MaxPrimers}

\* args.num_primers is an int (argparse type=int): negative values are accepted.
NumPrimersVals == (-2)..(MaxPrimers + 1)

\* Python 2's a <= b for an int a and an int-or-None b: None sorts below every int.
LeqPy2(a, b) == IF IsNone(b) THEN FALSE ELSE a <= Val(b)

\* s[0:stop] for an int-or-None stop.
SliceToOpt(s, stop) == IF IsNone(stop) THEN s ELSE SliceTo(s, Val(stop))

\* One step of a stable insertion: p goes after every element whose key is <= its own.
RECURSIVE InsertSorted(_, _, _)
InsertSorted(p, s, attr) ==
    IF s = << >> THEN <<p>>
    ELSE IF Head(s)[attr] <= p[attr]
         THEN <<Head(s)>> \o InsertSorted(p, Tail(s), attr)
         ELSE <<p>> \o s

\* sorted(s, key=attrgetter(attr)): ascending and stable.
RECURSIVE Sorted(_, _)
Sorted(s, attr) ==
    IF s = << >> THEN << >>
    ELSE InsertSorted(s[Len(s)], Sorted(SubSeq(s, 1, Len(s) - 1), attr), attr)

\* The ceiling test of the list comprehension.
PassesCeiling(p, ceiling) == LeqPy2(p.bg_freq, ceiling)

filter_primers(ps, ceiling, n) ==
    LET byBg == Sorted(ps, "bg_freq")
        kept == SelectSeq(byBg, LAMBDA p : PassesCeiling(p, ceiling))
        byRatio == Sorted(kept, "ratio")
    IN SliceToOpt(byRatio, n)

IdleFilter ==
    /\ primers = << >>
    /\ max_bg_binding = None
    /\ num_primers = None
    /\ fp_out = << >>
    /\ fp_pc = "idle"

InitFilter ==
    /\ primers \in PrimerLists
    /\ max_bg_binding \in {Some(c) : c \in Ceilings}
    /\ num_primers \in {Some(n) : n \in NumPrimersVals}
    /\ fp_out = << >>
    /\ fp_pc = "start"

RunFilter ==
    /\ fp_pc = "start"
    /\ fp_out' = filter_primers(primers, max_bg_binding, num_primers)
    /\ fp_pc' = "done"
    /\ UNCHANGED <<primers, max_bg_binding, num_primers>>
    /\ UNCHANGED notFilterVars

----------------------------------------------------------------------------
(* bg_binding_counts.py: bg_binding_freq *)

MaxGenomeLen == 4
MaxPrimerLen == 2

Bases == {"A", "C"}

\* Whether sub occurs in s at the 0-based position p.
OccursAt(s, sub, p) ==
    /\ p >= 0
    /\ p + Len(sub) <= Len(s)
    /\ SubSeq(s, p + 1, p + Len(sub)) = sub

\* str.find(sub, from): the lowest position >= from where sub occurs, or -1.
Find(s, sub, from) ==
    LET hits == {p \in from..(Len(s) - Len(sub)) : OccursAt(s, sub, p)}
    IN IF hits = {} THEN -1
       ELSE CHOOSE p \in hits : \A q \in hits : p <= q

\* A cursor that steps over the whole match, as a search for occurrences that do
\* not overlap would.
NextStartPastMatch ==
    IF Find(bg, primer, start) < 0 THEN 0
    ELSE Find(bg, primer, start) + Max(Len(primer), 1)

\* start = bg.find(primer, start) + 1
NextStart == Find(bg, primer, start) + 1

IdleBg ==
    /\ primer = << >>
    /\ bg = << >>
    /\ start = 0
    /\ count = 0
    /\ bg_pc = "idle"

InitBg ==
    /\ primer \in SeqsUpTo(Bases, MaxPrimerLen)
    /\ bg \in SeqsUpTo(Bases, MaxGenomeLen)
    /\ start = 0
    /\ count = 0
    /\ bg_pc = "loop"

\* if start > 0: count += 1
BgMatch ==
    /\ bg_pc = "loop"
    /\ NextStart > 0
    /\ start' = NextStart
    /\ count' = count + 1
    /\ UNCHANGED <<primer, bg, bg_pc>>
    /\ UNCHANGED notBgVars

\* else: return count
BgReturn ==
    /\ bg_pc = "loop"
    /\ ~(NextStart > 0)
    /\ start' = NextStart
    /\ bg_pc' = "done"
    /\ UNCHANGED <<primer, bg, count>>
    /\ UNCHANGED notBgVars

----------------------------------------------------------------------------
(* swga/primers.py: max_consecutive_binding *)

MaxMerLen == 3

Symbols == {"A", "T", "C", "G", "N"}

\* The keys of the binding table.
bindingKeys == {"A", "T", "C", "G", "_"}

\* binding[c] == d: the table maps A, T, C, G to their complement and "_" to False,
\* which equals no character.
binding(c, d) ==
    \/ c = "A" /\ d = "T"
    \/ c = "T" /\ d = "A"
    \/ c = "C" /\ d = "G"
    \/ c = "G" /\ d = "C"

Reverse(s) == [i \in 1..Len(s) |-> s[Len(s) + 1 - i]]

\* s.ljust(width, "_")
Ljust(s, width) == [i \in 1..Max(width, Len(s)) |-> IF i <= Len(s) THEN s[i] ELSE "_"]

\* The operands after the swap: the longer one first (the first one when equal).
Longer(a, b) == IF Len(b) > Len(a) THEN b ELSE a
Shorter(a, b) == IF Len(b) > Len(a) THEN a ELSE b

\* The value of `consecutive` after position x of the inner loop at one offset
\* (padded is mer1 after ljust, rev is mer2 reversed; both 1-based here).
RECURSIVE Consecutive(_, _, _, _)
Consecutive(padded, rev, offset, x) ==
    IF x < 0 THEN 0
    ELSE IF binding(padded[offset + x + 1], rev[x + 1])
         THEN Consecutive(padded, rev, offset, x - 1) + 1
         ELSE 0

\* The table lookups the two loops make: binding[mer1[offset+x]].
Lookups(a, b) ==
    {Ljust(Longer(a, b), Len(a) + Len(b))[offset + x + 1] :
        offset \in 0..(Len(Longer(a, b)) - 1),
        x \in 0..(Len(Shorter(a, b)) - 1)}

\* A lookup of a symbol that is not a key of the table raises KeyError.
RaisesKeyError(a, b) == \E c \in Lookups(a, b) : c \notin bindingKeys

max_consecutive_binding(a, b) ==
    LET m1 == Longer(a, b)
        rev == Reverse(Shorter(a, b))
        padded == Ljust(m1, Len(m1) + Len(rev))
        runs == {Consecutive(padded, rev, offset, x) :
                    offset \in 0..(Len(m1) - 1), x \in 0..(Len(rev) - 1)}
    IN IF runs = {} THEN 0 ELSE CHOOSE r \in runs : \A q \in runs : q <= r

IdleMcb ==
    /\ mer1 = << >>
    /\ mer2 = << >>
    /\ max_bind = 0
    /\ mcb_pc = "idle"

InitMcb ==
    /\ mer1 \in SeqsUpTo(Symbols, MaxMerLen)
    /\ mer2 \in SeqsUpTo(Symbols, MaxMerLen)
    /\ max_bind = 0
    /\ mcb_pc = "start"

McbReturn ==
    /\ mcb_pc = "start"
    /\ ~RaisesKeyError(mer1, mer2)
    /\ max_bind' = max_consecutive_binding(mer1, mer2)
    /\ mcb_pc' = "done"
    /\ UNCHANGED <<mer1, mer2>>
    /\ UNCHANGED notMcbVars

McbKeyError ==
    /\ mcb_pc = "start"
    /\ RaisesKeyError(mer1, mer2)
    /\ mcb_pc' = "KeyError"
    /\ UNCHANGED <<mer1, mer2, max_bind>>
    /\ UNCHANGED notMcbVars

----------------------------------------------------------------------------
(* swga/primers.py: count_kmers, _parse_kmer_binary *)

MaxRecords == 2
MaxCalls == 2

Thresholds == {1, 2}

\* struct.unpack('I', b): four bytes, least significant first (the counts of the
\* files below stay under 2^31, the largest number TLC holds).
U32(b) == b[1] + 256 * b[2] + 65536 * b[3] + 16777216 * b[4]

\* struct.unpack('i', b): the same, with the top byte signed.
I32(b) ==
    b[1] + 256 * b[2] + 65536 * b[3]
        + 16777216 * (IF b[4] >= 128 THEN b[4] - 256 ELSE b[4])

\* The four bytes of v, least significant first.
Bytes4(v) == <<v % 256, (v \div 256) % 256, (v \div 65536) % 256, (v \div 16777216) % 256>>

RECURSIVE Concat(_)
Concat(ss) == IF ss = << >> THEN << >> ELSE Head(ss) \o Concat(Tail(ss))

\* What the external tool can leave at the output path: a header (kmer_nbits = 8,
\* k), then records of one packed byte and a 4-byte count, cut at any byte (the
\* tool, or the process, may stop at any point of the write).
HeaderKs == {2}
PackedBytes == {6, 30}
Counts == {1, 2}

WholeFilesOf(n) ==
    {Bytes4(8) \o Bytes4(k) \o Concat([i \in 1..n |-> <<r[i][1]>> \o Bytes4(r[i][2])]) :
        k \in HeaderKs, r \in [1..n -> PackedBytes \X Counts]}

Prefixes(f) == {SubSeq(f, 1, cut) : cut \in 0..Len(f)}

ToolFiles == UNION {Prefixes(f) : f \in UNION {WholeFilesOf(n) : n \in 0..MaxRecords}}

\* "ACTG"[code]
BaseOf(code) == <<"A", "C", "T", "G">>[code + 1]

\* The k-mer of one record: base i is the 2-bit code at bit 2*(i%4) of byte i//4,
\* prepended to the k-mer built so far.
RECURSIVE DecodeKmer(_, _, _)
DecodeKmer(kmer_binary, k, i) ==
    IF i >= k THEN << >>
    ELSE DecodeKmer(kmer_binary, k, i + 1)
         \o <<BaseOf((kmer_binary[(i \div 4) + 1] \div (2 ^ (2 * (i % 4)))) % 4)>>

\* The records the loop yields from position pos (0-based) on: it stops at the
\* first read that comes back short (struct.error, swallowed by the second try).
RECURSIVE ReadRecords(_, _, _, _)
ReadRecords(f, pos, nbytes, k) ==
    IF pos + nbytes + 4 > Len(f) THEN << >>
    ELSE <<[kmer |-> DecodeKmer(SubSeq(f, pos + 1, pos + nbytes), k, 0),
            freq |-> U32(SubSeq(f, pos + nbytes + 1, pos + nbytes + 4))]>>
         \o ReadRecords(f, pos + nbytes + 4, nbytes, k)

\* Whether the two 4-byte header reads succeed.
HeaderReadable(f) == Len(f) >= 8

\* The failure raised again without the file removed.
ParseHeaderFailedKeepsFile == [error |-> "struct.error", removed |-> FALSE, records |-> << >>]

\* _parse_kmer_binary on a file holding the bytes f: the error that leaves the
\* generator ("none" when it ends normally), whether it removed the file, and the
\* records it yielded.
\* A header read that comes back short: os.remove(fname), then raise.
ParseHeaderFailed == [error |-> "struct.error", removed |-> TRUE, records |-> << >>]

\* The header was read: the record loop, which ends without an error.
ParseRecords(f) ==
    LET kmer_nbits == I32(SubSeq(f, 1, 4))
        k == I32(SubSeq(f, 5, 8))
    IN [error |-> "none", removed |-> FALSE,
        records |-> ReadRecords(f, 8, kmer_nbits \div 8, k)]

parse_kmer_binary(f) ==
    IF ~HeaderReadable(f) THEN ParseHeaderFailed ELSE ParseRecords(f)

\* dict((kmer, freq) for kmer, freq in records if freq >= threshold): a later
\* record of the same k-mer replaces an earlier one.
RECURSIVE ToDict(_, _)
ToDict(records, threshold) ==
    IF records = << >> THEN << >>
    ELSE LET rest == ToDict(SubSeq(records, 1, Len(records) - 1), threshold)
             r == records[Len(records)]
         IN IF r.freq >= threshold
            THEN [x \in DOMAIN rest \cup {r.kmer} |-> IF x = r.kmer THEN r.freq ELSE rest[x]]
            ELSE rest

\* The test left out: the tool is run whether or not the file is there.
CacheIgnored == FALSE

\* os.path.isfile(outfile), the test that decides whether the tool is run.
CacheExists == outfile # None

\* The part of count_kmers after the tool: parse the file at the output path (of
\* contents file, None when there is none) and build the mapping.
FinishCall(file, threshold, ran) ==
    IF IsNone(file)
    THEN /\ outfile' = None
         /\ calls' = Append(calls, [threshold |-> threshold, ran_tool |-> ran,
                                    parsed |-> None, outcome |-> "IOError",
                                    records |-> << >>, primers |-> << >>])
    ELSE LET res == parse_kmer_binary(Val(file))
         IN /\ outfile' = IF res.removed THEN None ELSE file
            /\ calls' = Append(calls,
                   [threshold |-> threshold, ran_tool |-> ran, parsed |-> file,
                    outcome |-> IF res.error = "none" THEN "ok" ELSE res.error,
                    records |-> res.records,
                    primers |-> IF res.error = "none"
                                THEN ToDict(res.records, threshold) ELSE << >>])

IdleKmer ==
    /\ outfile = None
    /\ dsk_runs = 0
    /\ calls = << >>

\* A cache file of an earlier process may be there, whole or cut short.
InitKmer ==
    /\ outfile \in {None} \cup {Some(f) : f \in ToolFiles}
    /\ dsk_runs = 0
    /\ calls = << >>

\* The output file exists: the tool is skipped and the file parsed.
CountKmersCached ==
    /\ Len(calls) < MaxCalls
    /\ CacheExists
    /\ \E t \in Thresholds : FinishCall(outfile, t, FALSE)
    /\ UNCHANGED dsk_runs
    /\ UNCHANGED notKmerVars

\* The tool is run and exits with status 0, leaving a file (or none) behind.
CountKmersRunTool ==
    /\ Len(calls) < MaxCalls
    /\ ~CacheExists
    /\ dsk_runs' = dsk_runs + 1
    /\ \E t \in Thresholds :
          \E written \in {None} \cup {Some(f) : f \in ToolFiles} :
              FinishCall(written, t, TRUE)
    /\ UNCHANGED notKmerVars

\* The tool fails: whatever it left is removed and the failure raised again.
CountKmersToolFails ==
    /\ Len(calls) < MaxCalls
    /\ ~CacheExists
    /\ dsk_runs' = dsk_runs + 1
    /\ outfile' = None
    /\ \E t \in Thresholds :
          calls' = Append(calls, [threshold |-> t, ran_tool |-> TRUE, parsed |-> None,
                                  outcome |-> "CalledProcessError",
                                  records |-> << >>, primers |-> << >>])
    /\ UNCHANGED notKmerVars

----------------------------------------------------------------------------
(* swga/primers.py: Primer, update_in_chunks *)

\* A row of the primers table: seq (the primary key), tm, _locations and active.
\* The count fields (_id, fg_freq, bg_freq, ratio) are read and written back
\* unchanged by everything below and are left out.
PrimerRow(seq, tm, locations, active) ==
    [seq |-> seq, tm |-> tm, locations |-> locations, active |-> active]

PrimerSeqs == {<<"A">>, <<"C">>, <<"G">>}

SeqsOf(rows) == {r.seq : r \in rows}

\* The rows of cat whose seq is in seqs (Primer.seq << seqs).
RowsIn(cat, seqs) == {r \in cat : r.seq \in seqs}

\* The delete without its where clause.
DeleteEveryRow(cat, seqs) == {}

\* Primer.delete().where(Primer.seq << seqs).execute()
DeleteWhereSeqIn(cat, seqs) == {r \in cat : r.seq \notin seqs}

\* Whether inserting the list of rows violates the primary key: a seq that is
\* already in the table, or twice in the list.
PrimaryKeyConflict(cat, rows) ==
    \/ \E i \in DOMAIN rows : rows[i].seq \in SeqsOf(cat)
    \/ \E i, j \in DOMAIN rows : i # j /\ rows[i].seq = rows[j].seq

\* p.to_dict(): the fields of the record, as the row to insert.
to_dict(p) == PrimerRow(p.seq, p.tm, p.locations, p.active)

\* Primer.insert_many(p.to_dict() for p in chunk).execute()
InsertMany(cat, chunk) == cat \cup {to_dict(chunk[i]) : i \in DOMAIN chunk}

\* chunk_iterator: the consecutive chunks of at most n records, in order.
NumChunks(records, n) == (Len(records) + n - 1) \div n
Chunk(records, n, i) == SubSeq(records, (i - 1) * n + 1, Min(i * n, Len(records)))

\* upsert_chunk: both statements, when neither fails.
upsert_chunk(cat, chunk) ==
    InsertMany(DeleteWhereSeqIn(cat, SeqsOf(Range(chunk))), chunk)

MaxItr == 3
ChunkSizes == {1, 2}

\* The lists to apply: the i-th record carries tm = 50 + i, so that two records of
\* one seq differ.
ItrLists ==
    UNION {{[i \in 1..k |-> PrimerRow(f[i], Some(50 + i), None, FALSE)] :
               f \in [1..k -> PrimerSeqs]} : k \in 0..MaxItr}

\* The tables the lists are applied to: per seq no row, a row without tm, or a row
\* with one.
StoredRows(q) == {PrimerRow(q, None, None, FALSE), PrimerRow(q, Some(40), None, TRUE)}

\* seq is the primary key: no two rows of a table share it.
UniqueSeqs(cat) == \A r1, r2 \in cat : r1.seq = r2.seq => r1 = r2

UpsertCatalogs ==
    {cat \in SUBSET (UNION {StoredRows(q) : q \in PrimerSeqs}) : UniqueSeqs(cat)}

CurrentChunk == Chunk(itr, chunksize, chunk_i)

IdleUpsert ==
    /\ itr = << >>
    /\ chunksize = 0
    /\ application = 0
    /\ chunk_i = 0
    /\ before = {}
    /\ catalog0 = {}
    /\ up_pc = "idle"

InitUpsert ==
    /\ itr \in ItrLists
    /\ chunksize \in ChunkSizes
    /\ catalog \in UpsertCatalogs
    /\ catalog0 = catalog
    /\ before = catalog
    /\ application = 1
    /\ chunk_i = 1
    /\ up_pc = IF itr = << >> THEN "done" ELSE "delete"

\* Primer.delete().where(Primer.seq << seqs).execute(): a statement of its own.
UpsertDelete ==
    /\ up_pc = "delete"
    /\ before' = catalog
    /\ catalog' = DeleteWhereSeqIn(catalog, SeqsOf(Range(CurrentChunk)))
    /\ up_pc' = "insert"
    /\ UNCHANGED <<itr, chunksize, application, chunk_i, catalog0>>
    /\ UNCHANGED notUpsertVars

\* The insert succeeds: on to the next chunk, or the next application.
UpsertInsert ==
    /\ up_pc = "insert"
    /\ ~PrimaryKeyConflict(catalog, CurrentChunk)
    /\ catalog' = InsertMany(catalog, CurrentChunk)
    /\ IF chunk_i < NumChunks(itr, chunksize)
       THEN /\ chunk_i' = chunk_i + 1
            /\ up_pc' = "delete"
            /\ UNCHANGED application
       ELSE IF application = 1
            THEN /\ application' = 2
                 /\ chunk_i' = 1
                 /\ up_pc' = "delete"
            ELSE /\ up_pc' = "done"
                 /\ UNCHANGED <<application, chunk_i>>
    /\ UNCHANGED <<itr, chunksize, before, catalog0>>
    /\ UNCHANGED notUpsertVars

\* The insert raises after the first k rows of the chunk went in (k = 0: one
\* statement for the whole chunk): a primary key conflict, a failing to_dict, the
\* store refusing the write.  Nothing undoes the delete.
UpsertInsertRaises ==
    /\ up_pc = "insert"
    /\ \E k \in 0..(Len(CurrentChunk) - 1) :
          /\ ~PrimaryKeyConflict(catalog, SubSeq(CurrentChunk, 1, k))
          /\ catalog' = InsertMany(catalog, SubSeq(CurrentChunk, 1, k))
    /\ up_pc' = "raised"
    /\ UNCHANGED <<itr, chunksize, application, chunk_i, before, catalog0>>
    /\ UNCHANGED notUpsertVars

\* The delete itself raises: the chunk is not touched.
UpsertDeleteRaises ==
    /\ up_pc = "delete"
    /\ before' = catalog
    /\ up_pc' = "raised"
    /\ UNCHANGED <<catalog, itr, chunksize, application, chunk_i, catalog0>>
    /\ UNCHANGED notUpsertVars

----------------------------------------------------------------------------
(* swga/primers.py: read_primer_list, update_Tms, update_locations, activate;
   swga/commands/activate.py: main *)

MaxLines == 3

\* chunksize=100, the default update_Tms and update_locations leave in place.
DefaultChunkSize == 100

CatalogSeqs == {<<"A">>, <<"C">>}
Genomes == {"fg1", "fg2"}

\* The lines of a primer list file: a sequence alone, with a second column, without
\* its newline, one the catalog never holds, and one that starts with a blank.
Lines ==
    {<<"A", "\n">>, <<"A", "\t", "7", "\n">>, <<"C">>, <<"G", "\n">>, <<" ", "C", "\n">>}

LineLists == SeqsUpTo(Lines, MaxLines)

\* line.strip('\n')
RECURSIVE StripNewlines(_)
StripNewlines(line) ==
    IF line = << >> THEN << >>
    ELSE IF Head(line) = "\n" THEN StripNewlines(Tail(line))
    ELSE IF line[Len(line)] = "\n" THEN StripNewlines(SubSeq(line, 1, Len(line) - 1))
    ELSE line

\* re.split(r'[ \t]+', text)[0]: what precedes the first blank or tab.
RECURSIVE FirstField(_)
FirstField(text) ==
    IF text = << >> \/ Head(text) \in {" ", "\t"} THEN << >>
    ELSE <<Head(text)>> \o FirstField(Tail(text))

ParseSeqs(lines) == [i \in DOMAIN lines |-> FirstField(StripNewlines(lines[i]))]

\* Messages only when no row at all came back.
MissingWhenNoneFound(seqs, rows) ==
    IF Cardinality(rows) = 0
    THEN SelectSeq(seqs, LAMBDA q : q \notin SeqsOf(rows))
    ELSE << >>

\* The messages of read_primer_list: nothing unless fewer rows than seqs came
\* back, and then one message per requested seq without a row.
Missing(seqs, rows) ==
    IF Cardinality(rows) < Len(seqs)
    THEN SelectSeq(seqs, LAMBDA q : q \notin SeqsOf(rows))
    ELSE << >>

\* swga.melting.Tm(seq): a function of the sequence alone.
Tm(seq) == 50 + Len(seq)

\* json.dumps(swga.locate.binding_sites(seq, genome_fp)): a function of the
\* sequence and of the genome.
binding_sites(seq, genome_fp) == <<seq, genome_fp>>

\* The rows a run can find: tm absent, or left by an earlier version or run;
\* locations absent, or computed against a genome.
CatalogRows(q) ==
    {PrimerRow(q, tm, loc, act) :
        tm \in {None, Some(40)},
        loc \in {None, Some(binding_sites(q, "fg1"))},
        act \in BOOLEAN}

ActivateCatalogs ==
    {cat \in SUBSET (UNION {CatalogRows(q) : q \in CatalogSeqs}) : UniqueSeqs(cat)}

RECURSIVE SetToSeq(_)
SetToSeq(S) ==
    IF S = {} THEN << >>
    ELSE LET x == CHOOSE y \in S : TRUE IN <<x>> \o SetToSeq(S \ {x})

\* update_in_chunks from chunk i on: every way it can end.  A chunk's delete can
\* raise; its insert can raise after k rows; otherwise the next chunk follows.
RECURSIVE ApplyChunks(_, _, _, _)
ApplyChunks(cat, records, n, i) ==
    IF i > NumChunks(records, n) THEN {[catalog |-> cat, raised |-> FALSE]}
    ELSE LET chunk == Chunk(records, n, i)
             deleted == DeleteWhereSeqIn(cat, SeqsOf(Range(chunk)))
         IN {[catalog |-> cat, raised |-> TRUE]}
            \cup {[catalog |-> InsertMany(deleted, SubSeq(chunk, 1, k)), raised |-> TRUE] :
                     k \in {j \in 0..(Len(chunk) - 1) :
                               ~PrimaryKeyConflict(deleted, SubSeq(chunk, 1, j))}}
            \cup (IF PrimaryKeyConflict(deleted, chunk) THEN {}
                  ELSE ApplyChunks(upsert_chunk(cat, chunk), records, n, i + 1))

update_in_chunks(cat, records, n) == ApplyChunks(cat, records, n, 1)

\* The rows update_Tms selects: seq among the primers and tm IS NULL.
TmTargets(cat, seqs) == {r \in RowsIn(cat, seqs) : r.tm = None}

update_Tms(cat, seqs) ==
    update_in_chunks(cat,
        SetToSeq({[r EXCEPT !.tm = Some(Tm(r.seq))] : r \in TmTargets(cat, seqs)}),
        DefaultChunkSize)

\* The selection without the IS NULL test: every requested row is recomputed.
LocationTargetsAll(cat, seqs) == RowsIn(cat, seqs)

\* The rows update_locations selects: seq among the primers and _locations IS NULL.
LocationTargets(cat, seqs) == {r \in RowsIn(cat, seqs) : r.locations = None}

update_locations(cat, seqs, genome_fp) ==
    update_in_chunks(cat,
        SetToSeq({[r EXCEPT !.locations = Some(binding_sites(r.seq, genome_fp))] :
                     r \in LocationTargets(cat, seqs)}),
        DefaultChunkSize)

\* Primer.update(active=True).where(Primer.seq << primers).execute()
activate(cat, seqs) ==
    {IF r.seq \in seqs THEN [r EXCEPT !.active = TRUE] ELSE r : r \in cat}

IdleCmd ==
    /\ cmd_pc = "off"
    /\ requested = << >>
    /\ primer_list = {}
    /\ messages = << >>
    /\ fg_genome_fp = ""

InitCmd ==
    /\ catalog \in ActivateCatalogs
    /\ cmd_pc = "idle"
    /\ requested = << >>
    /\ primer_list = {}
    /\ messages = << >>
    /\ fg_genome_fp = ""

CmdReturns ==
    /\ cmd_pc' = "idle"
    /\ requested' = << >>
    /\ primer_list' = {}
    /\ messages' = << >>
    /\ fg_genome_fp' = ""

\* main: read_primer_list(cmd.input, ...)
CmdReadPrimerList ==
    /\ cmd_pc = "idle"
    /\ \E lines \in LineLists :
          /\ requested' = ParseSeqs(lines)
          /\ primer_list' = RowsIn(catalog, Range(ParseSeqs(lines)))
          /\ messages' = Missing(ParseSeqs(lines), RowsIn(catalog, Range(ParseSeqs(lines))))
    /\ fg_genome_fp' \in Genomes
    /\ cmd_pc' = "update_Tms"
    /\ UNCHANGED catalog
    /\ UNCHANGED notCmdVars

\* main: update_Tms(primers); a failure leaves main.
CmdUpdateTms ==
    /\ cmd_pc = "update_Tms"
    /\ \E o \in update_Tms(catalog, SeqsOf(primer_list)) :
          /\ catalog' = o.catalog
          /\ IF o.raised THEN CmdReturns
             ELSE /\ cmd_pc' = "update_locations"
                  /\ UNCHANGED <<requested, primer_list, messages, fg_genome_fp>>
    /\ UNCHANGED notCmdVars

\* main: update_locations(primers, cmd.fg_genome_fp)
CmdUpdateLocations ==
    /\ cmd_pc = "update_locations"
    /\ \E o \in update_locations(catalog, SeqsOf(primer_list), fg_genome_fp) :
          /\ catalog' = o.catalog
          /\ IF o.raised THEN CmdReturns
             ELSE /\ cmd_pc' = "activate"
                  /\ UNCHANGED <<requested, primer_list, messages, fg_genome_fp>>
    /\ UNCHANGED notCmdVars

\* main: activate(primers), and the end of the run
CmdActivate ==
    /\ cmd_pc = "activate"
    /\ catalog' = activate(catalog, SeqsOf(primer_list))
    /\ CmdReturns
    /\ UNCHANGED notCmdVars

\* The three functions called on their own, with any list of sequences.
CallUpdateTms ==
    /\ cmd_pc = "idle"
    /\ \E seqs \in SUBSET PrimerSeqs : \E o \in update_Tms(catalog, seqs) :
          catalog' = o.catalog
    /\ UNCHANGED cmdVars
    /\ UNCHANGED notCmdVars

CallUpdateLocations ==
    /\ cmd_pc = "idle"
    /\ \E seqs \in SUBSET PrimerSeqs : \E g \in Genomes :
          \E o \in update_locations(catalog, seqs, g) : catalog' = o.catalog
    /\ UNCHANGED cmdVars
    /\ UNCHANGED notCmdVars

CallActivate ==
    /\ cmd_pc = "idle"
    /\ \E seqs \in SUBSET PrimerSeqs : catalog' = activate(catalog, seqs)
    /\ UNCHANGED cmdVars
    /\ UNCHANGED notCmdVars

----------------------------------------------------------------------------
(* PrimerSets/filter_primers.py: main *)

\* A dict with string keys: a function on a set of names.
EmptyDict == [name \in {} |-> << >>]

DigitChars == <<"0", "1", "2", "3", "4", "5", "6", "7", "8", "9">>

\* int(text) for a text of decimal digits.
RECURSIVE int(_)
int(text) ==
    IF text = << >> THEN 0
    ELSE 10 * int(SubSeq(text, 1, Len(text) - 1))
         + ((CHOOSE d \in 1..10 : DigitChars[d] = text[Len(text)]) - 1)

\* The options of the two int flags, and every name a section can set.
IntOptions == {"max_bg_binding", "num_primers"}
SectionOptions == IntOptions \cup {"quiet"}

\* What a [filter_primers] section can hold: any of the options, with these texts.
SectionText == [max_bg_binding |-> <<"5">>, num_primers |-> <<"5", "0">>, quiet |-> <<"1">>]
Sections == {[name \in d |-> SectionText[name]] : d \in SUBSET SectionOptions}

\* What the command line can hold: -M 3, -n 10, or neither.
FlagText == [max_bg_binding |-> <<"3">>, num_primers |-> <<"1", "0">>]
CommandLines == {[name \in d |-> FlagText[name]] : d \in SUBSET IntOptions}

\* The records of the input file, those of the example: A, B and C.
InputPrimers ==
    <<[seq |-> "A", bg_freq |-> 2, ratio |-> 10],
      [seq |-> "B", bg_freq |-> 10, ratio |-> 5],
      [seq |-> "C", bg_freq |-> 1, ratio |-> 20]>>

\* parse_args for one int option: the flag when given, else the default that
\* set_defaults planted (a text, converted with type=int), else None.
Resolve(name, flags, dflts) ==
    IF name \in DOMAIN flags THEN Some(int(flags[name]))
    ELSE IF name \in DOMAIN dflts THEN Some(int(dflts[name]))
    ELSE None

\* The namespace: the declared int options, and every default that no argument
\* declares, as it stands.
Namespace(flags, dflts) ==
    [name \in IntOptions \cup DOMAIN dflts |->
        IF name \in IntOptions THEN Resolve(name, flags, dflts) ELSE dflts[name]]

IdleCli ==
    /\ cfg_section = None
    /\ argv = EmptyDict
    /\ defaults = EmptyDict
    /\ args = EmptyDict
    /\ cli_out = << >>
    /\ cli_pc = "off"

InitCli ==
    /\ cfg_section \in {None, Some(None)} \cup {Some(Some(sec)) : sec \in Sections}
    /\ argv \in CommandLines
    /\ defaults = EmptyDict
    /\ args = EmptyDict
    /\ cli_out = << >>
    /\ cli_pc = "config"

\* os.path.isfile(cfg_file) is false: defaults stays {}.
CliNoConfigFile ==
    /\ cli_pc = "config"
    /\ cfg_section = None
    /\ cli_pc' = "parse_args"
    /\ UNCHANGED <<cfg_section, argv, defaults, args, cli_out>>
    /\ UNCHANGED notCliVars

\* The file is read and has the section: defaults = dict(config.items(...)).
CliReadSection ==
    /\ cli_pc = "config"
    /\ cfg_section # None /\ Val(cfg_section) # None
    /\ defaults' = Val(Val(cfg_section))
    /\ cli_pc' = "parse_args"
    /\ UNCHANGED <<cfg_section, argv, args, cli_out>>
    /\ UNCHANGED notCliVars

\* The file is read and has no such section: config.items raises NoSectionError,
\* which nothing catches.
CliNoSection ==
    /\ cli_pc = "config"
    /\ cfg_section # None /\ Val(cfg_section) = None
    /\ cli_pc' = "NoSectionError"
    /\ UNCHANGED <<cfg_section, argv, defaults, args, cli_out>>
    /\ UNCHANGED notCliVars

\* parser.set_defaults(**defaults); ...; args = parser.parse_args()
CliParseArgs ==
    /\ cli_pc = "parse_args"
    /\ args' = Namespace(argv, defaults)
    /\ cli_pc' = "notice"
    /\ UNCHANGED <<cfg_section, argv, defaults, cli_out>>
    /\ UNCHANGED notCliVars

\* if not args.quiet and ...: the namespace has the attribute.
CliNotice ==
    /\ cli_pc = "notice"
    /\ "quiet" \in DOMAIN args
    /\ cli_pc' = "filter"
    /\ UNCHANGED <<cfg_section, argv, defaults, args, cli_out>>
    /\ UNCHANGED notCliVars

\* No argument declares quiet: without a default of that name args.quiet raises
\* AttributeError.
CliQuietMissing ==
    /\ cli_pc = "notice"
    /\ "quiet" \notin DOMAIN args
    /\ cli_pc' = "AttributeError"
    /\ UNCHANGED <<cfg_section, argv, defaults, args, cli_out>>
    /\ UNCHANGED notCliVars

\* primers = filter_primers(args); writer.writerows(primers)
CliFilterAndWrite ==
    /\ cli_pc = "filter"
    /\ cli_out' = filter_primers(InputPrimers, args["max_bg_binding"], args["num_primers"])
    /\ cli_pc' = "done"
    /\ UNCHANGED <<cfg_section, argv, defaults, args>>
    /\ UNCHANGED notCliVars

----------------------------------------------------------------------------
(* Specifications *)

IdleDb == catalog = {} /\ IdleUpsert /\ IdleCmd /\ IdleCli

InitSpecFilter == InitFilter /\ IdleBg /\ IdleMcb /\ IdleKmer /\ IdleDb
NextFilter == RunFilter
SpecFilter == InitSpecFilter /\ [][NextFilter]_vars

InitSpecBg == InitBg /\ IdleFilter /\ IdleMcb /\ IdleKmer /\ IdleDb
NextBg == BgMatch \/ BgReturn
SpecBg == InitSpecBg /\ [][NextBg]_vars /\ WF_vars(NextBg)

InitSpecMcb == InitMcb /\ IdleFilter /\ IdleBg /\ IdleKmer /\ IdleDb
NextMcb == McbReturn \/ McbKeyError
SpecMcb == InitSpecMcb /\ [][NextMcb]_vars

InitSpecKmer == InitKmer /\ IdleFilter /\ IdleBg /\ IdleMcb /\ IdleDb
NextKmer == CountKmersCached \/ CountKmersRunTool \/ CountKmersToolFails
SpecKmer == InitSpecKmer /\ [][NextKmer]_vars

InitSpecUpsert ==
    InitUpsert /\ IdleFilter /\ IdleBg /\ IdleMcb /\ IdleKmer /\ IdleCmd /\ IdleCli
NextUpsert == UpsertDelete \/ UpsertInsert \/ UpsertInsertRaises \/ UpsertDeleteRaises
SpecUpsert == InitSpecUpsert /\ [][NextUpsert]_vars

InitSpecActivate ==
    InitCmd /\ IdleFilter /\ IdleBg /\ IdleMcb /\ IdleKmer /\ IdleUpsert /\ IdleCli
NextActivate ==
    \/ CmdReadPrimerList \/ CmdUpdateTms \/ CmdUpdateLocations \/ CmdActivate
    \/ CallUpdateTms \/ CallUpdateLocations \/ CallActivate
SpecActivate == InitSpecActivate /\ [][NextActivate]_vars

InitSpecCli ==
    /\ InitCli /\ IdleFilter /\ IdleBg /\ IdleMcb /\ IdleKmer
    /\ catalog = {} /\ IdleUpsert /\ IdleCmd
NextCli ==
    \/ CliNoConfigFile \/ CliReadSection \/ CliNoSection \/ CliParseArgs
    \/ CliNotice \/ CliQuietMissing \/ CliFilterAndWrite
SpecCli == InitSpecCli /\ [][NextCli]_vars

----------------------------------------------------------------------------
(* C1 *)

Passing == {p \in Range(primers) : p.bg_freq <= Val(max_bg_binding)}

\* C1: filter_primers returns exactly the records with bg_freq <= max_bg_binding,
\* ascending by ratio, cut to the first num_primers of that order: nothing above
\* the ceiling, the best ratios first, and never more than num_primers records.
C1_FilterContract ==
    fp_pc = "done" =>
        /\ Range(fp_out) \subseteq Passing
        /\ Len(fp_out) = Cardinality(Range(fp_out))
        /\ \A i, j \in DOMAIN fp_out : i < j => fp_out[i].ratio <= fp_out[j].ratio
        /\ \A p \in Passing \ Range(fp_out) :
               \A q \in Range(fp_out) : q.ratio <= p.ratio
        /\ Len(fp_out) = Min(Val(num_primers), Cardinality(Passing))
        /\ Len(fp_out) <= Val(num_primers)

\* The same contract for a num_primers that is not negative.
FilterContractNonNegative ==
    Val(num_primers) >= 0 => C1_FilterContract

----------------------------------------------------------------------------
(* C2 *)

Occurrences == {p \in 0..Len(bg) : OccursAt(bg, primer, p)}

\* C2: bg_binding_freq stops, and what it returns is the number of start positions
\* at which the primer occurs in the genome, overlapping occurrences included.
C2_CountsOverlapping ==
    <>(bg_pc = "done" /\ count = Cardinality(Occurrences))

C2_Witness ==
    /\ bg_pc = "done"
    /\ bg = <<"A", "A", "A", "A">>
    /\ primer = <<"A", "A">>
    /\ count = 3

----------------------------------------------------------------------------
(* C3 *)

\* C3 as stated: two calls with the same genome, k and working directory
\* run the tool at most once, the second call skips it and returns the mapping
\* of the first.
C3_AtMostOneRun ==
    Len(calls) >= 2 =>
        /\ dsk_runs <= 1
        /\ ~calls[2].ran_tool
        /\ calls[2].outcome = calls[1].outcome
        /\ calls[2].primers = calls[1].primers

\* C3, for a first call that succeeds: once a call has returned normally, no later call with the same genome, k and
\* working directory runs the tool, and a later call with the same threshold returns
\* the same mapping.
C3_CacheReuse ==
    \A i, j \in DOMAIN calls :
        (i < j /\ calls[i].outcome = "ok") =>
            /\ ~calls[j].ran_tool
            /\ calls[j].outcome = "ok"
            /\ calls[j].threshold = calls[i].threshold =>
                   calls[j].primers = calls[i].primers

\* The first call ran the tool and returned k-mers; the second skipped it.
C3_Witness ==
    /\ Len(calls) >= 2
    /\ calls[1].ran_tool /\ calls[1].outcome = "ok" /\ calls[1].primers # << >>
    /\ ~calls[2].ran_tool /\ calls[2].threshold = calls[1].threshold
    /\ dsk_runs = 1

----------------------------------------------------------------------------
(* C9 *)

LastCall == calls[Len(calls)]
Parsed == Val(LastCall.parsed)

\* The size of one record of the file parsed: the packed bytes and the 4-byte count.
RecordSize == (I32(SubSeq(Parsed, 1, 4)) \div 8) + 4

\* How many whole records follow the header.
WholeRecords == (Len(Parsed) - 8) \div RecordSize

FileRemovedAndRaised == LastCall.outcome = "struct.error" /\ outfile = None
EndedNormally == LastCall.outcome = "ok" /\ outfile = LastCall.parsed

\* C9 as stated: a header, or a first record, that cannot be read in
\* full removes the file and raises; a short read after at least one record ends
\* the stream normally, the file left in place.
C9_FirstReadFailureIsFatal ==
    (calls # << >> /\ LastCall.parsed # None) =>
        /\ Len(Parsed) < 8 => FileRemovedAndRaised
        /\ (Len(Parsed) > 8 /\ WholeRecords = 0) => FileRemovedAndRaised
        /\ (Len(Parsed) >= 8 /\ WholeRecords >= 1) => EndedNormally

\* C9: a header that cannot be read in full removes the file and raises the
\* failure; once the header is read, a short read ends the stream normally with the
\* whole records decoded so far (none, when the first record is already short) and
\* the file left in place.
C9_OnlyHeaderFailureIsFatal ==
    (calls # << >> /\ LastCall.parsed # None) =>
        /\ Len(Parsed) < 8 => FileRemovedAndRaised
        /\ Len(Parsed) >= 8 =>
               /\ EndedNormally
               /\ Len(LastCall.records) = WholeRecords

\* Both cases happened: a file with a short header, then (the tool run again) a
\* file cut inside its first record.
C9_Witness ==
    /\ Len(calls) >= 2
    /\ calls[1].parsed # None /\ Len(Val(calls[1].parsed)) < 8
    /\ calls[1].outcome = "struct.error"
    /\ LastCall.parsed # None /\ Len(Parsed) > 8 /\ WholeRecords = 0
    /\ LastCall.outcome = "ok" /\ outfile # None

----------------------------------------------------------------------------
(* C4 *)

ListSeqs == SeqsOf(Range(itr))
DistinctSeqs == \A i, j \in DOMAIN itr : itr[i].seq = itr[j].seq => i = j

\* C4: after update_in_chunks was applied twice with one list of N records of
\* distinct sequences, the table holds for the sequences of the list exactly the N
\* records, one row per sequence, and its other rows are as they were.
C4_UpsertTwice ==
    (up_pc = "done" /\ DistinctSeqs) =>
        /\ RowsIn(catalog, ListSeqs) = Range(itr)
        /\ Cardinality(RowsIn(catalog, ListSeqs)) = Len(itr)
        /\ UniqueSeqs(catalog)
        /\ {r \in catalog : r.seq \notin ListSeqs} = {r \in catalog0 : r.seq \notin ListSeqs}

\* Three records in chunks of two, over a table that held other values for two of
\* them and a row of its own.
C4_Witness ==
    /\ up_pc = "done" /\ application = 2
    /\ DistinctSeqs /\ Len(itr) > chunksize /\ chunksize = 2
    /\ Cardinality(RowsIn(catalog0, ListSeqs)) = 2
    /\ RowsIn(catalog0, ListSeqs) \cap Range(itr) = {}
    /\ Cardinality(catalog) = 3

----------------------------------------------------------------------------
(* C8 *)

ChunkSeqs == SeqsOf(Range(CurrentChunk))

\* C8: when update_in_chunks fails, the chunk it was working on is either fully
\* applied (its records are the rows of its sequences) or not applied at all (the
\* rows of its sequences are those from before the chunk).
C8_ChunkAtomic ==
    up_pc = "raised" =>
        \/ RowsIn(catalog, ChunkSeqs) = RowsIn(before, ChunkSeqs)
        \/ RowsIn(catalog, ChunkSeqs) = Range(CurrentChunk)

----------------------------------------------------------------------------
(* C6 *)

\* The value the three layers give an option: the flag, else the section's value,
\* else the built-in default (None).
Layered(name) ==
    IF name \in DOMAIN argv THEN Some(int(argv[name]))
    ELSE IF cfg_section # None /\ Val(cfg_section) # None
            /\ name \in DOMAIN Val(Val(cfg_section))
         THEN Some(int(Val(Val(cfg_section))[name]))
         ELSE None

\* C6: the command resolves its options in three layers (flag, then section, then
\* built-in default) and never raises, whether the file, the section or an option
\* is missing.
C6_ThreeLayersWithoutRaising ==
    /\ cli_pc \notin {"NoSectionError", "AttributeError"}
    /\ cli_pc \in {"notice", "filter", "done"} =>
           \A name \in IntOptions : args[name] = Layered(name)

\* The resolution alone, in the runs that get as far as parse_args.
CliLayersResolved ==
    cli_pc \in {"notice", "filter", "done", "AttributeError"} =>
        \A name \in IntOptions : args[name] = Layered(name)

----------------------------------------------------------------------------
(* C7 *)

AbsentEntries == {i \in DOMAIN requested : requested[i] \notin SeqsOf(catalog)}

ReadReturnsRowsAndReports ==
    /\ primer_list = RowsIn(catalog, Range(requested))
    /\ \A i \in AbsentEntries : requested[i] \in Range(messages)
    /\ \A i \in DOMAIN messages : messages[i] \notin SeqsOf(catalog)

----------------------------------------------------------------------------
(* C10 *)

\* C10: across update_Tms, update_locations and activate, alone or as runs of the
\* activate command with any foreground genome, a row's tm, once present, keeps its
\* value, and so do its locations.
C10_CachedFieldsKeepTheirValue ==
    [][\A r \in catalog : \A r2 \in catalog' :
           r2.seq = r.seq =>
               /\ r.tm # None => r2.tm = r.tm
               /\ r.locations # None => r2.locations = r.locations]_vars

\* A run of the command with genome fg2 has passed both updates, over a row whose
\* tm and locations (of fg1) were there before and still are.
C10_Witness ==
    /\ cmd_pc = "activate"
    /\ fg_genome_fp = "fg2"
    /\ \E r \in primer_list :
          /\ r.tm = Some(40)
          /\ r.locations = Some(binding_sites(r.seq, "fg1"))
          /\ r \in catalog
    /\ \E r \in catalog : r.locations = Some(binding_sites(r.seq, "fg2"))

----------------------------------------------------------------------------
(* C5 *)

\* Watson-Crick pairing as the claim states it: A with T, C with G, and no other
\* symbol (the placeholder included) pairs with anything.
Pairs(c, d) == <<c, d>> \in {<<"A", "T">>, <<"T", "A">>, <<"C", "G">>, <<"G", "C">>}

\* The longest run of consecutive pairings over every offset of the alignment of
\* the reversed shorter operand against the longer one.
LongestRun(a, b) ==
    LET m1 == Longer(a, b)
        rev == Reverse(Shorter(a, b))
        At(i) == IF i <= Len(m1) THEN m1[i] ELSE "_"
        IsRun(offset, x, n) == \A i \in 0..(n - 1) : Pairs(At(offset + x + i + 1), rev[x + i + 1])
        lens == {n \in 0..Len(rev) :
                    \E offset \in 0..(Len(m1) - 1) : \E x \in 0..(Len(rev) - n) :
                        n = 0 \/ IsRun(offset, x, n)}
    IN CHOOSE n \in lens \cup {0} : \A q \in lens : q <= n

\* C5: for every pair of strings max_consecutive_binding returns the longest run of
\* complementary pairings over all offsets (0 when nothing pairs); a symbol outside
\* A, T, C, G never pairs.
C5_LongestRun ==
    /\ mcb_pc # "KeyError"
    /\ mcb_pc = "done" => max_bind = LongestRun(mer1, mer2)

\* The same over the strings of A, T, C, G alone.
McbOnNucleotides ==
    (Range(mer1) \cup Range(mer2) \subseteq {"A", "T", "C", "G"}) => C5_LongestRun
=============================================================================
